---- MODULE Spec2Model ----
(***************************************************************************)
(* A model of the flowchart tool's automatic layout engine,                *)
(* calculateLayout (utils/layout.ts), as a state machine: one action per   *)
(* phase or loop iteration of the function, over the function's locals.    *)
(* Node objects live in a heap so that copying a node and writing to a     *)
(* copy are distinguished from writing to the caller's object.            *)
(* A second state machine, AppSpec, models the App component (App.tsx):    *)
(* its flowData, isDirty and history state, the handlers that queue state  *)
(* updates, and the render that applies them and runs the structure effect.*)
(***************************************************************************)
EXTENDS Integers, Sequences, FiniteSets, TLC

\* ---------------------------------------------------------------- bounds
\* Largest number of nodes of an input graph.
MaxNodes == 3
\* Largest number of edges of an input graph.
MaxEdges == 3
\* Largest number of leading input nodes that already carry x, y, width and
\* height (nodes that went through the editor); the others are raw.
MaxSized == 1
\* Largest number of handler calls made by the user in one run of the App.
MaxCalls == 4
\* Largest number of nodes the generator returns to the App.
MaxGenNodes == 2
\* Largest number of state updates queued between two renders.
MaxPending == 4

\* ------------------------------------------------------ program constants
NODE_WIDTH == 180
NODE_HEIGHT == 80
X_SPACING == 250
Y_SPACING == 150

\* ------------------------------------------------------------ input space
\* An optional field: absent (undefined) or present with a value.
None == <<>>
Some(v) == <<v>>

\* Node ids are opaque strings; the i-th node of an input list has the i-th id.
\* Ids are unique within a node list and are not names of Object.prototype
\* properties (adj and inDegree are plain objects indexed by id).
IdPool == <<"a", "b", "c", "d", "e">>
\* An id that no node carries: the endpoint of a dangling edge.
MissingId == "z"
EdgeIdPool == <<"e1", "e2", "e3", "e4", "e5", "e6">>
TypePool == <<"start", "process", "decision", "end", "data">>
LabelPool == <<"Begin", "Step", "Check?", "Finish", "Input">>

\* A node as the generator returns it: id, type and label only.
RawNode(i) ==
    [id |-> IdPool[i], type |-> TypePool[i], label |-> LabelPool[i],
     x |-> None, y |-> None, width |-> None, height |-> None]

\* A node that was positioned and resized in the editor.
EditedNode(i) ==
    [id |-> IdPool[i], type |-> TypePool[i], label |-> LabelPool[i],
     x |-> Some(40 * i), y |-> Some(7), width |-> Some(300), height |-> Some(120)]

InputNode(i, k) == IF i <= k THEN EditedNode(i) ELSE RawNode(i)

EdgeEnds(n) == {IdPool[i] : i \in 1..n} \cup {MissingId}

\* The edge list that a sequence of (source, target) pairs stands for.
EdgeList(f) == [j \in 1..Len(f) |-> [id |-> EdgeIdPool[j], source |-> f[j][1], target |-> f[j][2]]]

SopChoices ==
    {None, Some([title |-> "T", sections |-> <<[heading |-> "H", content |-> "C"]>>])}

\* ------------------------------------------------------------------ state
VARIABLES
    nodes,      \* data.nodes: the input array, a sequence of heap references
    edges,      \* data.edges: the input array of edge records
    sop,        \* data.sop: the optional document
    heap,       \* the node objects: reference -> fields
    pc,         \* position in calculateLayout
    nodesMap,   \* Map id -> reference of the working copy
    adj,        \* Record id -> successor ids
    inDegree,   \* Record id -> number
    queue,      \* the BFS queue of {id, rank}
    ranks,      \* Record rank -> ids of the row
    visited,    \* Set of ids
    nodeRanks,  \* Record id -> rank
    cursor,     \* index of the running forEach (sweep: node, placement: rank key)
    finalNodes, \* the output array, a sequence of heap references
    result,     \* the returned object, once returned
    pushLog     \* history: the ids passed to queue.push, in call order

\* The App component (App.tsx).
VARIABLES
    flowData,     \* useState flowData, as of the last render
    isDirty,      \* useState isDirty, as of the last render
    history,      \* useState history, as of the last render: the data of each item
    autoSync,     \* useState autoSync, as of the last render
    isInitialGen, \* useRef isInitialGen.current: written at once
    updates,      \* the state updates queued since the last render, in call order
    lastDeps,     \* the dependency values of the structure effect at the last render
    request,      \* the flowData captured by the handleRefineSOP call in flight
    timer,        \* the flowData captured by the pending auto-sync timeout
    synced,       \* history: the structure set by the last generation, load,
                  \* refinement or reset that was rendered
    calls         \* history: the number of handler calls made by the user

appVars == <<flowData, isDirty, history, autoSync, isInitialGen, updates, lastDeps,
             request, timer, synced, calls>>

layoutVars == <<nodes, edges, sop, heap, pc, nodesMap, adj, inDegree, queue, ranks,
                visited, nodeRanks, cursor, finalNodes, result, pushLog>>

vars == <<layoutVars, appVars>>

input == <<nodes, edges, sop>>

\* The ids of the input node list, in input order.
NodeIdSeq == [i \in 1..Len(nodes) |-> heap[nodes[i]].id]
NodeIdSet == {heap[nodes[i]].id : i \in 1..Len(nodes)}
\* The references of the caller's node objects.
InputRefs == {nodes[i] : i \in 1..Len(nodes)}

\* useState<FlowData>({ nodes: [], edges: [] })
EmptyFlow == [nodes |-> <<>>, edges |-> <<>>, sop |-> None]

\* The dependency values of the structure effect: the JSON strings of the nodes'
\* id, label and type and of the edges' id, source and target are equal exactly
\* when these sequences are.
Structure(d) ==
    <<[i \in 1..Len(d.nodes) |->
          [id |-> d.nodes[i].id, label |-> d.nodes[i].label, type |-> d.nodes[i].type]],
      [j \in 1..Len(d.edges) |->
          [id |-> d.edges[j].id, s |-> d.edges[j].source, t |-> d.edges[j].target]]>>

\* The component after its first render: the initial state values, and the
\* structure effect has run once on the empty flow and returned.
AppMounted ==
    /\ flowData = EmptyFlow
    /\ isDirty = FALSE
    /\ history = <<>>
    /\ autoSync = FALSE
    /\ isInitialGen = FALSE
    /\ updates = <<>>
    /\ lastDeps = Structure(EmptyFlow)
    /\ request = None
    /\ timer = None
    /\ synced = Structure(EmptyFlow)
    /\ calls = 0

Init ==
    \E n \in 0..MaxNodes, m \in 0..MaxEdges, s \in SopChoices :
      \E k \in 0..MaxSized, f \in [1..m -> EdgeEnds(n) \X EdgeEnds(n)] :
        /\ k <= n
        /\ nodes = [i \in 1..n |-> i]
        /\ heap = [i \in 1..n |-> InputNode(i, k)]
        /\ edges = EdgeList(f)
        /\ sop = s
        /\ pc = "init"
        /\ nodesMap = <<>>
        /\ adj = <<>>
        /\ inDegree = <<>>
        /\ queue = <<>>
        /\ ranks = <<>>
        /\ visited = {}
        /\ nodeRanks = <<>>
        /\ cursor = 0
        /\ finalNodes = <<>>
        /\ result = None
        /\ pushLog = <<>>
        /\ AppMounted

\* ------------------------------------------------- calculateLayout: helpers
\* map.set(k, v) on a Map or a Record modelled as a function.
MapSet(m, k, v) == IF k \in DOMAIN m THEN [m EXCEPT ![k] = v] ELSE m @@ (k :> v)

\* { ...n, x: 0, y: 0, width: NODE_WIDTH, height: NODE_HEIGHT }: the fields of the copy.
NodeDefaults(n) ==
    [n EXCEPT !.x = Some(0), !.y = Some(0),
              !.width = Some(NODE_WIDTH), !.height = Some(NODE_HEIGHT)]

\* Mutant of CopyNode: the defaults are assigned to the caller's object, which is
\* then stored in the map (n.x = 0; ...; nodesMap.set(n.id, n)).
CopyNodeInPlace(h, r) == [heap |-> [h EXCEPT ![r] = NodeDefaults(h[r])], ref |-> r]

\* The object literal allocates a new object; the caller's object h[r] is only read.
CopyNode(h, r) == [heap |-> Append(h, NodeDefaults(h[r])), ref |-> Len(h) + 1]

\* nodes.forEach(n => nodesMap.set(n.id, {...})), from index i on.
RECURSIVE InitNodesMap(_, _, _, _)
InitNodesMap(h, ns, m, i) ==
    IF i > Len(ns) THEN [heap |-> h, nodesMap |-> m]
    ELSE LET c == CopyNode(h, ns[i])
         IN InitNodesMap(c.heap, ns, MapSet(m, h[ns[i]].id, c.ref), i + 1)

\* nodes.forEach(n => { adj[n.id] = []; inDegree[n.id] = 0; })
EmptyAdj(ids) == [id \in ids |-> <<>>]
ZeroInDegree(ids) == [id \in ids |-> 0]

\* Mutant of PushSuccessor: the target goes to the front of the list (unshift).
PushSuccessorFront(a, e) ==
    IF e.source \in DOMAIN a THEN [a EXCEPT ![e.source] = <<e.target>> \o @] ELSE a

\* if (adj[e.source]) adj[e.source].push(e.target): only the source is tested.
PushSuccessor(a, e) ==
    IF e.source \in DOMAIN a THEN [a EXCEPT ![e.source] = Append(@, e.target)] ELSE a

\* if (inDegree[e.target] !== undefined) inDegree[e.target]++: only the target is tested.
CountInDegree(d, e) ==
    IF e.target \in DOMAIN d THEN [d EXCEPT ![e.target] = @ + 1] ELSE d

\* edges.forEach(e => {...}), from index i on.
RECURSIVE BuildAdj(_, _, _, _)
BuildAdj(a, d, es, i) ==
    IF i > Len(es) THEN [adj |-> a, inDegree |-> d]
    ELSE BuildAdj(PushSuccessor(a, es[i]), CountInDegree(d, es[i]), es, i + 1)

\* Mutant of StartNodes: the first node is always a start node.
StartNodesWithFirst(ids, d) == SelectSeq(ids, LAMBDA id : d[id] = 0 \/ id = ids[1])

\* nodes.filter(n => inDegree[n.id] === 0), as ids in input order.
StartNodes(ids, d) == SelectSeq(ids, LAMBDA id : d[id] = 0)

\* Mutant of SeedQueueOf: the fallback root is the last node of the list.
SeedFallbackLast(ids, d) ==
    LET start == StartNodes(ids, d)
    IN IF Len(start) > 0 THEN [i \in 1..Len(start) |-> [id |-> start[i], rank |-> 0]]
       ELSE IF Len(ids) > 0 THEN <<[id |-> ids[Len(ids)], rank |-> 0]>>
       ELSE <<>>

\* Mutant of SeedQueueOf: the fallback does not test nodes.length, so for an empty
\* node list an entry with no node's id is queued.
SeedNoEmptyGuard(ids, d) ==
    LET start == StartNodes(ids, d)
    IN IF Len(start) > 0 THEN [i \in 1..Len(start) |-> [id |-> start[i], rank |-> 0]]
       ELSE <<[id |-> IF Len(ids) > 0 THEN ids[1] ELSE MissingId, rank |-> 0]>>

\* Mutant of SeedQueueOf: only the first node is ever a root.
SeedFirstOnly(ids, d) == IF Len(ids) > 0 THEN <<[id |-> ids[1], rank |-> 0]>> ELSE <<>>

\* The initial queue: every start node at rank 0, else the first node, else nothing.
SeedQueueOf(ids, d) ==
    LET start == StartNodes(ids, d)
    IN IF Len(start) > 0 THEN [i \in 1..Len(start) |-> [id |-> start[i], rank |-> 0]]
       ELSE IF Len(ids) > 0 THEN <<[id |-> ids[1], rank |-> 0]>>
       ELSE <<>>

\* Mutant of QueueShift: the head is read (queue[0]) and never removed.
QueuePeek(q) == q

\* queue.shift(): the queue without its head.
QueueShift(q) == Tail(q)

\* visited.add(id)
MarkVisited(v, id) == v \cup {id}

\* Mutant of PushRank: the id is put at the front of its row.
PushRankFront(rs, rank, id) ==
    IF rank \in DOMAIN rs THEN [rs EXCEPT ![rank] = <<id>> \o @] ELSE rs @@ (rank :> <<id>>)

\* if (!ranks[rank]) ranks[rank] = []; ranks[rank].push(id)
PushRank(rs, rank, id) ==
    IF rank \in DOMAIN rs THEN [rs EXCEPT ![rank] = Append(@, id)] ELSE rs @@ (rank :> <<id>>)

\* adj[id] || []
Neighbors(a, id) == IF id \in DOMAIN a THEN a[id] ELSE <<>>

\* Mutant of Enqueue: successors are queued at the rank of their predecessor.
EnqueueSameRank(q, targets, v, rank) ==
    LET fresh == SelectSeq(targets, LAMBDA t : t \notin v)
    IN q \o [i \in 1..Len(fresh) |-> [id |-> fresh[i], rank |-> rank]]

\* Mutant of Enqueue: new entries go to the front of the queue.
EnqueueFront(q, targets, v, rank) ==
    LET fresh == SelectSeq(targets, LAMBDA t : t \notin v)
    IN [i \in 1..Len(fresh) |-> [id |-> fresh[i], rank |-> rank + 1]] \o q

\* Mutant of Enqueue: successors are queued whether visited or not.
EnqueueAll(q, targets, v, rank) ==
    q \o [i \in 1..Len(targets) |-> [id |-> targets[i], rank |-> rank + 1]]

\* neighbors.forEach(targetId => { if (!visited.has(targetId)) queue.push(...) })
Enqueue(q, targets, v, rank) ==
    LET fresh == SelectSeq(targets, LAMBDA t : t \notin v)
    IN q \o [i \in 1..Len(fresh) |-> [id |-> fresh[i], rank |-> rank + 1]]

\* Mutant of BfsIteration: a dequeued entry is processed whether visited or not.
BfsIterationNoGate(l, a) ==
    LET head == Head(l.queue)
        rest == QueueShift(l.queue)
        v == MarkVisited(l.visited, head.id)
    IN [queue |-> Enqueue(rest, Neighbors(a, head.id), v, head.rank),
        visited |-> v,
        ranks |-> PushRank(l.ranks, head.rank, head.id),
        nodeRanks |-> MapSet(l.nodeRanks, head.id, head.rank)]

\* One iteration of the while loop, on locals l = [queue, visited, ranks, nodeRanks].
BfsIteration(l, a) ==
    LET head == Head(l.queue)
        rest == QueueShift(l.queue)
    IN IF head.id \in l.visited THEN [l EXCEPT !.queue = rest]
       ELSE LET v == MarkVisited(l.visited, head.id)
            IN [queue |-> Enqueue(rest, Neighbors(a, head.id), v, head.rank),
                visited |-> v,
                ranks |-> PushRank(l.ranks, head.rank, head.id),
                nodeRanks |-> MapSet(l.nodeRanks, head.id, head.rank)]

SetMax(S) == CHOOSE m \in S : \A o \in S : o <= m

\* Mutant of BottomRank: the bottom row is the last row there is, not a new one.
BottomRankNoStep(rs) == SetMax(DOMAIN rs \cup {0})

\* Math.max(...Object.keys(ranks).map(Number), 0) + 1
BottomRank(rs) == SetMax(DOMAIN rs \cup {0}) + 1

\* Mutant of SweepIteration: an unvisited node is marked and ranked but put in no row.
SweepIterationNoRow(l, id) ==
    IF id \in l.visited THEN l
    ELSE [l EXCEPT !.visited = MarkVisited(l.visited, id),
                   !.nodeRanks = MapSet(l.nodeRanks, id, BottomRank(l.ranks))]

\* One iteration of the unvisited sweep, for the node with this id.
SweepIteration(l, id) ==
    IF id \in l.visited THEN l
    ELSE LET maxRank == BottomRank(l.ranks)
         IN [l EXCEPT !.ranks = PushRank(l.ranks, maxRank, id),
                      !.visited = MarkVisited(l.visited, id),
                      !.nodeRanks = MapSet(l.nodeRanks, id, maxRank)]

\* Mutant of SortedKeys: the keys come in descending order.
RECURSIVE SortedKeysDescending(_)
SortedKeysDescending(S) ==
    IF S = {} THEN <<>>
    ELSE LET hi == CHOOSE m \in S : \A o \in S : o <= m
         IN <<hi>> \o SortedKeysDescending(S \ {hi})

\* Object.keys(ranks): integer keys come in ascending order.
RECURSIVE SortedKeys(_)
SortedKeys(S) ==
    IF S = {} THEN <<>>
    ELSE LET lo == CHOOSE m \in S : \A o \in S : m <= o
         IN <<lo>> \o SortedKeys(S \ {lo})

\* Mutant of StartX: the row starts at its left edge, not at the centre of its
\* first slot.
StartXNoHalfSlot(k) == -((k * X_SPACING) \div 2)

\* -(rowWidth / 2) + (X_SPACING / 2), rowWidth = k * X_SPACING (both halves are whole).
StartX(k) == -((k * X_SPACING) \div 2) + (X_SPACING \div 2)
\* Mutant of NodeX: slots are one node width apart.
NodeXNodeWidth(k, index) == StartX(k) + index * NODE_WIDTH
NodeX(k, index) == StartX(k) + index * X_SPACING
\* Mutant of NodeY: no top padding.
NodeYNoPadding(rank) == rank * Y_SPACING
\* Mutant of NodeY: every row at the top.
NodeYFlat(rank) == 50
\* rank * Y_SPACING + 50
NodeY(rank) == rank * Y_SPACING + 50

\* nodesInRank.forEach((nodeId, index) => {...}) from 1-based position i on, on
\* p = [heap, finalNodes, threw]. nodesMap.get(nodeId) is undefined for an id that
\* is no node, and the assignment node.x = ... then throws a TypeError.
RECURSIVE PlaceRow(_, _, _, _, _)
PlaceRow(p, m, row, rank, i) ==
    IF i > Len(row) THEN p
    ELSE IF row[i] \notin DOMAIN m THEN [p EXCEPT !.threw = TRUE]
    ELSE LET r == m[row[i]]
         IN PlaceRow([p EXCEPT !.heap[r].x = Some(NodeX(Len(row), i - 1)),
                               !.heap[r].y = Some(NodeY(rank)),
                               !.finalNodes = Append(@, r)],
                     m, row, rank, i + 1)

\* ------------------------------------------------- calculateLayout: actions
\* Lines 15-29: the working copies, the empty adjacency and in-degree tables.
BuildMaps ==
    /\ pc = "init"
    /\ LET b == InitNodesMap(heap, nodes, <<>>, 1)
       IN /\ heap' = b.heap
          /\ nodesMap' = b.nodesMap
    /\ adj' = EmptyAdj(NodeIdSet)
    /\ inDegree' = ZeroInDegree(NodeIdSet)
    /\ pc' = "edges"
    /\ UNCHANGED <<input, queue, ranks, visited, nodeRanks, cursor, finalNodes, result,
                   pushLog>>
    /\ UNCHANGED appVars

\* Lines 31-38: edges.forEach.
BuildAdjacency ==
    /\ pc = "edges"
    /\ LET b == BuildAdj(adj, inDegree, edges, 1)
       IN /\ adj' = b.adj
          /\ inDegree' = b.inDegree
    /\ pc' = "seed"
    /\ UNCHANGED <<input, heap, nodesMap, queue, ranks, visited, nodeRanks, cursor,
                   finalNodes, result, pushLog>>
    /\ UNCHANGED appVars

\* The ids of the entries that queue.push added: what the queue holds beyond the
\* entries kept from before (pushes go to the back).
PushedIds(kept, q) == [i \in 1..(Len(q) - Len(kept)) |-> q[Len(kept) + i].id]

\* The phase after the BFS loop, the sweep and the placement, given what is left.
AfterBfs(q) == IF Len(q) > 0 THEN "bfs" ELSE "sweep"

\* Lines 40-54: the start nodes and the initial queue.
SeedQueue ==
    /\ pc = "seed"
    /\ queue' = SeedQueueOf(NodeIdSeq, inDegree)
    /\ pc' = AfterBfs(queue')
    /\ cursor' = 1
    /\ pushLog' = pushLog \o PushedIds(queue, queue')
    /\ UNCHANGED <<input, heap, nodesMap, adj, inDegree, ranks, visited, nodeRanks,
                   finalNodes, result>>
    /\ UNCHANGED appVars

\* Lines 56-72: one iteration of while (queue.length > 0).
BfsStep ==
    /\ pc = "bfs"
    /\ LET l == BfsIteration([queue |-> queue, visited |-> visited, ranks |-> ranks,
                              nodeRanks |-> nodeRanks], adj)
       IN /\ queue' = l.queue
          /\ visited' = l.visited
          /\ ranks' = l.ranks
          /\ nodeRanks' = l.nodeRanks
          /\ pc' = AfterBfs(l.queue)
    /\ pushLog' = pushLog \o PushedIds(QueueShift(queue), queue')
    /\ UNCHANGED <<input, heap, nodesMap, adj, inDegree, cursor, finalNodes, result>>
    /\ UNCHANGED appVars

\* Lines 75-84: one iteration of nodes.forEach over the unvisited nodes.
SweepStep ==
    /\ pc = "sweep"
    /\ cursor <= Len(nodes)
    /\ LET l == SweepIteration([visited |-> visited, ranks |-> ranks,
                                nodeRanks |-> nodeRanks], NodeIdSeq[cursor])
       IN /\ visited' = l.visited
          /\ ranks' = l.ranks
          /\ nodeRanks' = l.nodeRanks
    /\ cursor' = cursor + 1
    /\ UNCHANGED <<input, heap, pc, nodesMap, adj, inDegree, queue, finalNodes, result,
                   pushLog>>
    /\ UNCHANGED appVars

\* Line 87: the sweep is over; finalNodes = [] and Object.keys(ranks) is taken.
SweepDone ==
    /\ pc = "sweep"
    /\ cursor > Len(nodes)
    /\ pc' = "place"
    /\ cursor' = 1
    /\ UNCHANGED <<input, heap, nodesMap, adj, inDegree, queue, ranks, visited,
                   nodeRanks, finalNodes, result, pushLog>>
    /\ UNCHANGED appVars

\* Lines 89-101: one iteration of Object.keys(ranks).forEach: one row is placed.
PlaceRank ==
    /\ pc = "place"
    /\ cursor <= Cardinality(DOMAIN ranks)
    /\ LET rank == SortedKeys(DOMAIN ranks)[cursor]
           p == PlaceRow([heap |-> heap, finalNodes |-> finalNodes, threw |-> FALSE],
                         nodesMap, ranks[rank], rank, 1)
       IN /\ heap' = p.heap
          /\ finalNodes' = p.finalNodes
          /\ pc' = IF p.threw THEN "threw" ELSE "place"
    /\ cursor' = cursor + 1
    /\ UNCHANGED <<input, nodesMap, adj, inDegree, queue, ranks, visited, nodeRanks, result,
                   pushLog>>
    /\ UNCHANGED appVars

\* Mutant of ReturnedEdges: the edges that layout ignores are dropped from the result.
ReturnedEdgesFiltered(es) ==
    SelectSeq(es, LAMBDA e : e.source \in NodeIdSet /\ e.target \in NodeIdSet)

\* The edges and the document of the returned object.
ReturnedEdges(es) == es
ReturnedSop(s) == s

\* Line 103: return { nodes: finalNodes, edges, sop }.
Return ==
    /\ pc = "place"
    /\ cursor > Cardinality(DOMAIN ranks)
    /\ result' = Some([nodes |-> finalNodes, edges |-> ReturnedEdges(edges),
                       sop |-> ReturnedSop(sop)])
    /\ pc' = "done"
    /\ UNCHANGED <<input, heap, nodesMap, adj, inDegree, queue, ranks, visited,
                   nodeRanks, cursor, finalNodes, pushLog>>
    /\ UNCHANGED appVars

Next ==
    \/ BuildMaps
    \/ BuildAdjacency
    \/ SeedQueue
    \/ BfsStep
    \/ SweepStep
    \/ SweepDone
    \/ PlaceRank
    \/ Return

Spec == Init /\ [][Next]_vars

\* The call runs to its end: nothing suspends it.
LiveSpec == Spec /\ WF_vars(Next)

\* The call is over: it returned or it threw.
Finished == pc \in {"done", "threw"}

\* ------------------------------------------- calculateLayout as a function
\* The loops run to their ends, on the same iterations as the actions.
RECURSIVE BfsLoop(_, _)
BfsLoop(l, a) == IF Len(l.queue) = 0 THEN l ELSE BfsLoop(BfsIteration(l, a), a)

RECURSIVE SweepLoop(_, _, _)
SweepLoop(l, ids, i) ==
    IF i > Len(ids) THEN l ELSE SweepLoop(SweepIteration(l, ids[i]), ids, i + 1)

RECURSIVE PlaceLoop(_, _, _, _, _)
PlaceLoop(p, m, rs, keys, i) ==
    IF i > Len(keys) \/ p.threw THEN p
    ELSE PlaceLoop(PlaceRow(p, m, rs[keys[i]], keys[i], 1), m, rs, keys, i + 1)

\* calculateLayout({nodes: ns, edges: es}) on heap h: whether it threw, the heap
\* after the call and the returned node array.
LayoutOf(h, ns, es) ==
    LET ids == [i \in 1..Len(ns) |-> h[ns[i]].id]
        idSet == {ids[i] : i \in 1..Len(ns)}
        maps == InitNodesMap(h, ns, <<>>, 1)
        tabs == BuildAdj(EmptyAdj(idSet), ZeroInDegree(idSet), es, 1)
        bfs == BfsLoop([queue |-> SeedQueueOf(ids, tabs.inDegree), visited |-> {},
                        ranks |-> <<>>, nodeRanks |-> <<>>], tabs.adj)
        swept == SweepLoop([visited |-> bfs.visited, ranks |-> bfs.ranks,
                            nodeRanks |-> bfs.nodeRanks], ids, 1)
    IN PlaceLoop([heap |-> maps.heap, finalNodes |-> <<>>, threw |-> FALSE],
                 maps.nodesMap, swept.ranks, SortedKeys(DOMAIN swept.ranks), 1)

\* The node objects an array of references holds, in order.
Deref(h, refs) == [i \in 1..Len(refs) |-> h[refs[i]]]

\* Consistency of the two forms: a finished run of the actions ends as the
\* function does on the same input.
StepsAgreeWithLayoutOf ==
    pc \in {"done", "threw"} =>
        LET l == LayoutOf([r \in 1..Len(nodes) |-> heap[r]], nodes, edges)
        IN /\ l.threw = (pc = "threw")
           /\ Deref(l.heap, l.finalNodes) = Deref(heap, finalNodes)

\* ------------------------------------------------------------- App: inputs
\* The presentation state (description, status, errorMsg, activeTab, copied) is
\* not read by any handler below and is left out; a handler that fails or returns
\* early then changes nothing and takes no step.

\* What the generator returns (geminiService.ts): up to MaxGenNodes raw nodes in a
\* chain, with or without a document. The edges of a generated flow join its own
\* nodes, and no two of them join the same pair.
GenRaw ==
    UNION {{[n |-> n, pairs |-> [j \in 1..m |-> <<IdPool[j], IdPool[j + 1]>>], sop |-> s] :
                m \in 0..(IF n = 0 THEN 0 ELSE n - 1), s \in SopChoices} :
           n \in 0..MaxGenNodes}

\* The document a refinement returns.
RefinedSop == Some([title |-> "R", sections |-> <<[heading |-> "H", content |-> "R"]>>])

\* Arguments of the editor's callbacks: where a node is dragged to, what it is
\* resized to, what it is relabelled to, and the type and place of a new node.
MovedTo == [x |-> 300, y |-> 400]
ResizedTo == [width |-> 240, height |-> 120]
EditedLabel == "Edited"
NewNodeType == "process"
NewNodeAt == [x |-> 10, y |-> 20]

\* `node-${Date.now()}` and `edge-${Date.now()}`: the t-th call happens at its own
\* millisecond, so the ids of different calls differ.
NewNodeId(t) == <<"n1", "n2", "n3", "n4", "n5", "n6", "n7", "n8">>[t]
NewEdgeId(t) == <<"k1", "k2", "k3", "k4", "k5", "k6", "k7", "k8">>[t]

\* labels[type] || 'New Node' (the types the model uses)
DefaultLabel(type) ==
    CASE type = "start" -> "Start"
      [] type = "end" -> "End"
      [] type = "process" -> "Action Step"
      [] type = "decision" -> "Decision?"
      [] type = "data" -> "Input/Output"
      [] OTHER -> "New Node"

\* ------------------------------------------------------ App: state updates
\* An argument of setFlowData(prev => ...): which handler queued it, and with what.
NoOp == [op |-> "none", id |-> "", s |-> "", t |-> "", n1 |-> 0, n2 |-> 0]

\* The queued updates, one record shape for all of them.
\* setFlowData(value): made by a generation, a history load, a refinement or a reset.
SetFlow(d) == [kind |-> "setFlow", flow |-> d, flag |-> FALSE, op |-> NoOp]
EditFlow(o) == [kind |-> "editFlow", flow |-> EmptyFlow, flag |-> FALSE, op |-> o]
SetDirty(b) == [kind |-> "setDirty", flow |-> EmptyFlow, flag |-> b, op |-> NoOp]
SetAutoSync(b) == [kind |-> "setAutoSync", flow |-> EmptyFlow, flag |-> b, op |-> NoOp]
SaveHistory(d) == [kind |-> "saveHistory", flow |-> d, flag |-> FALSE, op |-> NoOp]

\* prev.nodes.map(n => n.id === nodeId ? { ...n, x, y } : n)
MoveNode(ns, id, x, y) ==
    [i \in 1..Len(ns) |->
        IF ns[i].id = id THEN [ns[i] EXCEPT !.x = Some(x), !.y = Some(y)] ELSE ns[i]]
\* prev.nodes.map(n => n.id === nodeId ? { ...n, width, height } : n)
ResizeNode(ns, id, width, height) ==
    [i \in 1..Len(ns) |->
        IF ns[i].id = id THEN [ns[i] EXCEPT !.width = Some(width), !.height = Some(height)]
        ELSE ns[i]]
\* prev.nodes.map(n => n.id === nodeId ? { ...n, label: newLabel } : n)
RelabelNode(ns, id, newLabel) ==
    [i \in 1..Len(ns) |-> IF ns[i].id = id THEN [ns[i] EXCEPT !.label = newLabel] ELSE ns[i]]

\* Mutant of ApplyOp: deleteNode filters the node list only.
ApplyOpKeepEdges(prev, o) ==
    IF o.op = "deleteNode"
    THEN [prev EXCEPT !.nodes = SelectSeq(@, LAMBDA n : n.id # o.id)]
    ELSE CASE o.op = "move" ->
                 [prev EXCEPT !.nodes = MoveNode(@, o.id, o.n1, o.n2)]
           [] o.op = "size" ->
                 [prev EXCEPT !.nodes = ResizeNode(@, o.id, o.n1, o.n2)]
           [] o.op = "label" ->
                 [prev EXCEPT !.nodes = RelabelNode(@, o.id, o.s)]
           [] o.op = "deleteEdge" ->
                 [prev EXCEPT !.edges = SelectSeq(@, LAMBDA e : e.id # o.id)]
           [] o.op = "addNode" ->
                 [prev EXCEPT !.nodes = Append(@,
                     [id |-> o.id, type |-> o.s, label |-> DefaultLabel(o.s),
                      x |-> Some(o.n1), y |-> Some(o.n2),
                      width |-> Some(180), height |-> Some(80)])]
           [] o.op = "addEdge" ->
                 [prev EXCEPT !.edges = Append(@, [id |-> o.id, source |-> o.s, target |-> o.t])]

\* The updater functions of lines 131-156, applied to prev.
ApplyOp(prev, o) ==
    CASE o.op = "move" ->
            [prev EXCEPT !.nodes = MoveNode(@, o.id, o.n1, o.n2)]
      [] o.op = "size" ->
            [prev EXCEPT !.nodes = ResizeNode(@, o.id, o.n1, o.n2)]
      [] o.op = "label" ->
            [prev EXCEPT !.nodes = RelabelNode(@, o.id, o.s)]
      [] o.op = "deleteNode" ->
            [prev EXCEPT !.nodes = SelectSeq(@, LAMBDA n : n.id # o.id),
                         !.edges = SelectSeq(@, LAMBDA e : e.source # o.id /\ e.target # o.id)]
      [] o.op = "deleteEdge" ->
            [prev EXCEPT !.edges = SelectSeq(@, LAMBDA e : e.id # o.id)]
      [] o.op = "addNode" ->
            [prev EXCEPT !.nodes = Append(@,
                [id |-> o.id, type |-> o.s, label |-> DefaultLabel(o.s),
                 x |-> Some(o.n1), y |-> Some(o.n2),
                 width |-> Some(180), height |-> Some(80)])]
      [] o.op = "addEdge" ->
            [prev EXCEPT !.edges = Append(@, [id |-> o.id, source |-> o.s, target |-> o.t])]

\* JSON.parse(JSON.stringify(data)): the data are strings, finite numbers, arrays
\* and objects whose optional fields are absent or set, which the round trip keeps.
DeepCopy(d) == d

\* setHistory(prev => [newItem, ...prev.slice(0, 19)])
PushHistory(prev, d) == <<DeepCopy(d)>> \o SubSeq(prev, 1, IF Len(prev) < 19 THEN Len(prev) ELSE 19)

\* One queued update applied to the state st = [flowData, isDirty, history,
\* autoSync, synced].
ApplyUpdate(st, u) ==
    CASE u.kind = "setFlow" ->
            [st EXCEPT !.flowData = u.flow, !.synced = Structure(u.flow)]
      [] u.kind = "editFlow" -> [st EXCEPT !.flowData = ApplyOp(@, u.op)]
      [] u.kind = "setDirty" -> [st EXCEPT !.isDirty = u.flag]
      [] u.kind = "setAutoSync" -> [st EXCEPT !.autoSync = u.flag]
      [] u.kind = "saveHistory" -> [st EXCEPT !.history = PushHistory(@, u.flow)]

\* The queue applied in call order, from index i on.
RECURSIVE ApplyUpdates(_, _, _)
ApplyUpdates(st, us, i) ==
    IF i > Len(us) THEN st ELSE ApplyUpdates(ApplyUpdate(st, us[i]), us, i + 1)

\* The state the next render will show.
Latest ==
    ApplyUpdates([flowData |-> flowData, isDirty |-> isDirty, history |-> history,
                  autoSync |-> autoSync, synced |-> synced], updates, 1)

\* ------------------------------------------------------------ App: actions
\* A handler call by the user is possible: the bounds on calls and queue allow it.
CanCall(k) == calls < MaxCalls /\ Len(updates) + k <= MaxPending

\* Lines 63-65: generateFlowFromText resolved with g; the laid-out flow, or that
\* calculateLayout threw.
Generated(g) ==
    LET h == [i \in 1..g.n |-> RawNode(i)]
        es == EdgeList(g.pairs)
        l == LayoutOf(h, [i \in 1..g.n |-> i], es)
    IN [threw |-> l.threw,
        flow |-> [nodes |-> Deref(l.heap, l.finalNodes), edges |-> ReturnedEdges(es),
                  sop |-> ReturnedSop(g.sop)]]

\* handleGenerate, lines 59-81, from the point where the request resolves.
HandleGenerate ==
    \E g \in GenRaw :
        /\ CanCall(3)
        /\ ~Generated(g).threw
        /\ isInitialGen' = TRUE
        /\ updates' = updates \o <<SetFlow(Generated(g).flow), SetDirty(FALSE),
                                   SaveHistory(Generated(g).flow)>>
        /\ calls' = calls + 1
        /\ UNCHANGED <<flowData, isDirty, history, autoSync, lastDeps, request, timer,
                       synced, layoutVars>>

\* handleRefineSOP, lines 83-86, up to the await: the closure keeps the flowData
\* of the render it was created in. One refinement is in flight at a time.
StartRefine(d) ==
    /\ Len(d.nodes) # 0
    /\ request = None
    /\ request' = Some(d)

\* The user asks for a refinement (onReviseSOP, the Update SOP buttons).
HandleRefineSOP ==
    /\ calls < MaxCalls
    /\ StartRefine(flowData)
    /\ calls' = calls + 1
    /\ UNCHANGED <<flowData, isDirty, history, autoSync, isInitialGen, updates, lastDeps,
                   timer, synced, layoutVars>>

\* Line 111: the auto-sync timeout fires and calls the handleRefineSOP of the
\* render that set it.
TimerFires ==
    /\ timer # None
    /\ StartRefine(timer[1])
    /\ timer' = None
    /\ UNCHANGED <<flowData, isDirty, history, autoSync, isInitialGen, updates, lastDeps,
                   synced, calls, layoutVars>>

\* const updatedData = { ...flowData, sop: newSOP }
UpdatedData(captured, newSOP) == [captured EXCEPT !.sop = newSOP]

\* handleRefineSOP, lines 87-94: refineSOPFromFlow resolved.
RefineResolved ==
    /\ request # None
    /\ Len(updates) + 3 <= MaxPending
    /\ LET updatedData == UpdatedData(request[1], RefinedSop)
       IN updates' = updates \o <<SetFlow(updatedData), SetDirty(FALSE),
                                  SaveHistory(updatedData)>>
    /\ request' = None
    /\ UNCHANGED <<flowData, isDirty, history, autoSync, isInitialGen, lastDeps, timer,
                   synced, calls, layoutVars>>

\* handleRefineSOP, lines 95-100: refineSOPFromFlow rejected.
RefineRejected ==
    /\ request # None
    /\ request' = None
    /\ UNCHANGED <<flowData, isDirty, history, autoSync, isInitialGen, updates, lastDeps,
                   timer, synced, calls, layoutVars>>

\* loadFromHistory, lines 119-124, on an item of the rendered history list.
LoadFromHistory ==
    \E i \in 1..Len(history) :
        /\ CanCall(2)
        /\ isInitialGen' = TRUE
        /\ updates' = updates \o <<SetFlow(DeepCopy(history[i])), SetDirty(FALSE)>>
        /\ calls' = calls + 1
        /\ UNCHANGED <<flowData, isDirty, history, autoSync, lastDeps, request, timer,
                       synced, layoutVars>>

\* handleClear, lines 158-164.
HandleClear ==
    /\ CanCall(2)
    /\ updates' = updates \o <<SetFlow(EmptyFlow), SetDirty(FALSE)>>
    /\ calls' = calls + 1
    /\ UNCHANGED <<flowData, isDirty, history, autoSync, isInitialGen, lastDeps, request,
                   timer, synced, layoutVars>>

\* onClick={() => setAutoSync(!autoSync)}
ToggleAutoSync ==
    /\ CanCall(1)
    /\ updates' = updates \o <<SetAutoSync(~autoSync)>>
    /\ calls' = calls + 1
    /\ UNCHANGED <<flowData, isDirty, history, autoSync, isInitialGen, lastDeps, request,
                   timer, synced, layoutVars>>

\* A handler of lines 131-150 queues its updater; nothing else changes.
QueueEdit(o) ==
    /\ CanCall(1)
    /\ updates' = updates \o <<EditFlow(o)>>
    /\ calls' = calls + 1
    /\ UNCHANGED <<flowData, isDirty, history, autoSync, isInitialGen, lastDeps, request,
                   timer, synced, layoutVars>>

\* The ids of the nodes and edges on screen: what the editor passes to a callback.
ShownNodeIds == {flowData.nodes[i].id : i \in 1..Len(flowData.nodes)}
ShownEdgeIds == {flowData.edges[j].id : j \in 1..Len(flowData.edges)}

UpdateNodePosition ==
    \E id \in ShownNodeIds : QueueEdit([NoOp EXCEPT !.op = "move", !.id = id,
                                                    !.n1 = MovedTo.x, !.n2 = MovedTo.y])
UpdateNodeSize ==
    \E id \in ShownNodeIds : QueueEdit([NoOp EXCEPT !.op = "size", !.id = id,
                                                    !.n1 = ResizedTo.width,
                                                    !.n2 = ResizedTo.height])
UpdateNodeLabel ==
    \E id \in ShownNodeIds : QueueEdit([NoOp EXCEPT !.op = "label", !.id = id,
                                                    !.s = EditedLabel])
DeleteNode ==
    \E id \in ShownNodeIds : QueueEdit([NoOp EXCEPT !.op = "deleteNode", !.id = id])
DeleteEdge ==
    \E id \in ShownEdgeIds : QueueEdit([NoOp EXCEPT !.op = "deleteEdge", !.id = id])
AddNode ==
    QueueEdit([NoOp EXCEPT !.op = "addNode", !.id = NewNodeId(calls + 1),
                           !.s = NewNodeType, !.n1 = NewNodeAt.x, !.n2 = NewNodeAt.y])

\* addEdge, lines 151-156: the two tests read the flowData of the last render.
AddEdge ==
    \E source, target \in ShownNodeIds :
        /\ source # target
        /\ ~\E j \in 1..Len(flowData.edges) :
              flowData.edges[j].source = source /\ flowData.edges[j].target = target
        /\ QueueEdit([NoOp EXCEPT !.op = "addEdge", !.id = NewEdgeId(calls + 1),
                                  !.s = source, !.t = target])

\* A render: the queued updates are applied in call order, and the structure
\* effect of lines 103-117 runs if its dependency values changed. The cleanup of
\* the effect's last full run clears the timeout before the effect runs again.
Render ==
    /\ updates # <<>>
    /\ LET st == Latest
           deps == Structure(st.flowData)
           runs == deps # lastDeps
           past == runs /\ Len(st.flowData.nodes) # 0
           marks == past /\ ~isInitialGen
       IN /\ flowData' = st.flowData
          /\ isDirty' = st.isDirty
          /\ history' = st.history
          /\ autoSync' = st.autoSync
          /\ synced' = st.synced
          /\ lastDeps' = deps
          /\ isInitialGen' = IF past THEN FALSE ELSE isInitialGen
          /\ updates' = IF marks THEN <<SetDirty(TRUE)>> ELSE <<>>
          /\ timer' = IF ~runs THEN timer
                      ELSE IF marks /\ st.autoSync THEN Some(st.flowData) ELSE None
    /\ UNCHANGED <<request, calls, layoutVars>>

\* calculateLayout is not running.
LayoutIdle ==
    /\ nodes = <<>> /\ edges = <<>> /\ sop = None /\ heap = <<>>
    /\ pc = "idle"
    /\ nodesMap = <<>> /\ adj = <<>> /\ inDegree = <<>> /\ queue = <<>> /\ ranks = <<>>
    /\ visited = {} /\ nodeRanks = <<>> /\ cursor = 0 /\ finalNodes = <<>>
    /\ result = None /\ pushLog = <<>>

AppInit == AppMounted /\ LayoutIdle

AppNext ==
    \/ HandleGenerate
    \/ HandleRefineSOP
    \/ TimerFires
    \/ RefineResolved
    \/ RefineRejected
    \/ LoadFromHistory
    \/ HandleClear
    \/ ToggleAutoSync
    \/ UpdateNodePosition
    \/ UpdateNodeSize
    \/ UpdateNodeLabel
    \/ DeleteNode
    \/ DeleteEdge
    \/ AddNode
    \/ AddEdge
    \/ Render

AppSpec == AppInit /\ [][AppNext]_vars

\* ------------------------------------------------------ reading the state
Returned == pc = "done"
Threw == pc = "threw"

\* The returned node objects, in output order.
OutNodes == Deref(heap, result[1].nodes)
OutIds == [i \in 1..Len(OutNodes) |-> OutNodes[i].id]

\* Placement of the working copy of the node with this id.
XOf(id) == heap[nodesMap[id]].x[1]
YOf(id) == heap[nodesMap[id]].y[1]

IsNodeId(id) == id \in NodeIdSet
IsDangling(e) == ~IsNodeId(e.source) \/ ~IsNodeId(e.target)
NoDanglingEdges == \A i \in 1..Len(edges) : ~IsDangling(edges[i])
EdgeSet == {edges[i] : i \in 1..Len(edges)}

\* The ids reachable from the ids of S along one or more edges.
RECURSIVE ReachFrom(_, _)
ReachFrom(S, k) ==
    LET step == S \cup {e.target : e \in {f \in EdgeSet : f.source \in S}}
    IN IF k = 0 THEN S ELSE ReachFrom(step, k - 1)
Descendants(id) ==
    ReachFrom({e.target : e \in {f \in EdgeSet : f.source = id}}, Len(edges))
Acyclic == \A i \in 1..Len(edges) : edges[i].source \notin Descendants(edges[i].source)

\* ================================================================== claims

\* C1: for a graph with unique node ids and no dangling edge (any shape), the call
\* does not throw, and the returned node list holds every input node id exactly
\* once, no other id, and a defined x and y for every node.
C1_NodeCoverage ==
    NoDanglingEdges =>
        /\ ~Threw
        /\ Returned =>
            /\ \A id \in NodeIdSet : Cardinality({i \in 1..Len(OutIds) : OutIds[i] = id}) = 1
            /\ \A i \in 1..Len(OutIds) : OutIds[i] \in NodeIdSet
            /\ \A i \in 1..Len(OutNodes) :
                  /\ OutNodes[i].x # None /\ OutNodes[i].x[1] \in Int
                  /\ OutNodes[i].y # None /\ OutNodes[i].y[1] \in Int

\* A returned layout of three nodes in two disconnected parts: one node with a
\* self-loop (on a cycle, so no start node), the others joined by parallel edges.
C1_Witness ==
    /\ Returned /\ NoDanglingEdges /\ Len(nodes) = 3
    /\ \E i \in 1..Len(edges) : edges[i].source = edges[i].target
    /\ \E i, j \in 1..Len(edges) :
          i # j /\ edges[i].source = edges[j].source /\ edges[i].target = edges[j].target

\* C2: calculateLayout never raises an error, dangling edges included.
C2_NeverThrows == ~Threw

\* C3: dangling edges are ignored: no id outside the node set enters the queue,
\* the rank table or the output, and the returned nodes (order and positions) are
\* those of the same graph without its dangling edges.
C3_DanglingIgnored ==
    /\ \A i \in 1..Len(queue) : IsNodeId(queue[i].id)
    /\ \A r \in DOMAIN ranks : \A i \in 1..Len(ranks[r]) : IsNodeId(ranks[r][i])
    /\ \A id \in DOMAIN nodeRanks : IsNodeId(id)
    /\ Returned =>
          LET clean == SelectSeq(edges, LAMBDA e : ~IsDangling(e))
              l == LayoutOf([r \in 1..Len(nodes) |-> heap[r]], nodes, clean)
          IN OutNodes = Deref(l.heap, l.finalNodes)

\* C4: the edges and the document of the result are the input's, unchanged, and
\* the call changes neither.
C4_EdgesSopPassThrough ==
    /\ [](Returned => result[1].edges = edges /\ result[1].sop = sop)
    /\ [][edges' = edges /\ sop' = sop]_vars

\* A returned layout of a graph with a document, an edge that layout ignores and
\* an edge that it follows.
C4_Witness ==
    /\ Returned /\ sop # None
    /\ \E i, j \in 1..Len(edges) : IsDangling(edges[i]) /\ ~IsDangling(edges[j])

\* C5 as stated: in an acyclic graph without dangling edges every edge's target is
\* strictly below its source.
C5_TargetBelowSource ==
    (Returned /\ NoDanglingEdges /\ Acyclic) =>
        \A i \in 1..Len(edges) : YOf(edges[i].target) > YOf(edges[i].source)

\* C5 amended: in an acyclic graph without dangling edges every edge's target is at
\* most one row below its source, and every node with an incoming edge is exactly
\* one row below at least one of its sources.
C5_TargetAtMostOneRowBelow ==
    (Returned /\ NoDanglingEdges /\ Acyclic) =>
        /\ \A i \in 1..Len(edges) :
              /\ nodeRanks[edges[i].target] <= nodeRanks[edges[i].source] + 1
              /\ YOf(edges[i].target) <= YOf(edges[i].source) + Y_SPACING
        /\ \A i \in 1..Len(edges) : \E j \in 1..Len(edges) :
              /\ edges[j].target = edges[i].target
              /\ nodeRanks[edges[j].target] = nodeRanks[edges[j].source] + 1
              /\ YOf(edges[j].target) = YOf(edges[j].source) + Y_SPACING

\* A returned layout of an acyclic graph with an edge whose target is not below
\* its source.
C5_Witness ==
    /\ Returned /\ NoDanglingEdges /\ Acyclic
    /\ \E i \in 1..Len(edges) : YOf(edges[i].target) <= YOf(edges[i].source)

\* The node iso has no edge at all, and the other nodes, two or more, form one
\* chain: every edge runs between them, none twice, each has at most one
\* predecessor and one successor, and there is no cycle.
EdgesInto(id) == {i \in 1..Len(edges) : edges[i].target = id}
EdgesOutOf(id) == {i \in 1..Len(edges) : edges[i].source = id}
IsolatedBesideChain(iso) ==
    /\ IsNodeId(iso)
    /\ EdgesInto(iso) = {} /\ EdgesOutOf(iso) = {}
    /\ NoDanglingEdges /\ Acyclic
    /\ Cardinality(NodeIdSet) >= 3
    /\ Len(edges) = Cardinality(NodeIdSet) - 2
    /\ \A id \in NodeIdSet :
          Cardinality(EdgesInto(id)) <= 1 /\ Cardinality(EdgesOutOf(id)) <= 1

\* C6 as stated: an isolated node beside a chain is below every node of the chain.
C6_IsolatedBelowChain ==
    Returned => \A iso \in NodeIdSet : IsolatedBesideChain(iso) =>
        \A c \in NodeIdSet \ {iso} :
            nodeRanks[iso] > nodeRanks[c] /\ YOf(iso) > YOf(c)

\* C6 amended: an isolated node beside a chain has in-degree zero, so it is a root:
\* it is at rank 0 (y = 50), in the row of the chain's first node, and no node of
\* the chain is above it.
C6_IsolatedIsRoot ==
    Returned => \A iso \in NodeIdSet : IsolatedBesideChain(iso) =>
        /\ nodeRanks[iso] = 0 /\ YOf(iso) = 50
        /\ \E c \in NodeIdSet \ {iso} :
              EdgesInto(c) = {} /\ nodeRanks[c] = 0 /\ YOf(c) = YOf(iso)
        /\ \A c \in NodeIdSet \ {iso} : YOf(c) >= YOf(iso)

\* A returned layout of a two-node chain and an isolated node that comes last in
\* the input.
C6_Witness ==
    /\ Returned /\ Len(nodes) = 3
    /\ IsolatedBesideChain(NodeIdSeq[3])

\* The returned node that carries this id.
OutNodeOf(id) == OutNodes[CHOOSE i \in 1..Len(OutNodes) : OutNodes[i].id = id]

\* C8: the default size is assigned only if none is set: a returned node whose
\* input has no width and height is 180 by 80, and one whose input carries a
\* width and a height keeps them.
C8_DefaultSizeOnlyIfUnset ==
    Returned => \A r \in InputRefs :
        LET in == heap[r]
            out == OutNodeOf(in.id)
        IN /\ (in.width = None /\ in.height = None) =>
                 (out.width = Some(NODE_WIDTH) /\ out.height = Some(NODE_HEIGHT))
           /\ (in.width # None /\ in.height # None) =>
                 (out.width = in.width /\ out.height = in.height)

\* C9: the call does not mutate its input: the input node list and every input
\* node object stay as they were at every step, and the returned nodes are other
\* objects, one per input node, with the input node's id, type and label.
C9_InputNotMutated ==
    /\ [][nodes' = nodes /\ \A r \in InputRefs : heap'[r] = heap[r]]_vars
    /\ [](Returned =>
            /\ \A i \in 1..Len(result[1].nodes) : result[1].nodes[i] \notin InputRefs
            /\ \A r \in InputRefs : \E i \in 1..Len(OutNodes) :
                  /\ OutNodes[i].id = heap[r].id
                  /\ OutNodes[i].type = heap[r].type
                  /\ OutNodes[i].label = heap[r].label
            /\ \A i \in 1..Len(OutNodes) : \E r \in InputRefs :
                  /\ OutNodes[i].id = heap[r].id
                  /\ OutNodes[i].type = heap[r].type
                  /\ OutNodes[i].label = heap[r].label)

\* A returned layout of two or more nodes whose first input node carried a
\* position and a size that differ from the ones layout gave its copy.
C9_Witness ==
    /\ Returned /\ Len(nodes) >= 2
    /\ heap[nodes[1]].x # None /\ heap[nodes[1]].width # None
    /\ OutNodeOf(heap[nodes[1]].id).x # heap[nodes[1]].x
    /\ OutNodeOf(heap[nodes[1]].id).width # heap[nodes[1]].width

\* C10: the computation terminates on every finite graph: the call ends, from the
\* end of the traversal on the queue is empty, and the sweep goes through the node
\* list once, one node per iteration.
C10_Terminates ==
    /\ <>Finished
    /\ [](pc \in {"sweep", "place", "done", "threw"} => Len(queue) = 0)
    /\ [][pc = "sweep" /\ pc' = "sweep" => cursor' = cursor + 1]_vars
    /\ [][pc # "sweep" => pc' # "sweep" \/ cursor' = 1]_vars

\* The id lies on a cycle.
OnCycle(id) == id \in Descendants(id)

\* A finished call on a graph with a self-loop and a second cycle disjoint from it.
C10_Witness ==
    /\ Finished /\ NoDanglingEdges
    /\ \E i \in 1..Len(edges) : edges[i].source = edges[i].target
    /\ \E a, b \in NodeIdSet :
          /\ a # b /\ OnCycle(a) /\ OnCycle(b)
          /\ b \notin Descendants(a) /\ a \notin Descendants(b)

\* ------------------------------------------------------------ graph shapes
\* The ids from which id is reachable along one or more edges.
Ancestors(id) == {a \in NodeIdSet : id \in Descendants(a)}

\* The length of the shortest path from a node of S to id, -1 when there is none.
RECURSIVE DistLayers(_, _, _, _)
DistLayers(frontier, seen, id, d) ==
    IF id \in frontier THEN d
    ELSE IF frontier = {} THEN -1
    ELSE LET done == seen \cup frontier
             next == {e.target : e \in {f \in EdgeSet : f.source \in frontier}} \ done
         IN DistLayers(next, done, id, d + 1)
Dist(S, id) == DistLayers(S, {}, id, 0)

\* The whole graph is one simple chain n1 -> n2 -> ... -> nn, n >= 1.
WholeChain ==
    /\ Len(nodes) >= 1
    /\ NoDanglingEdges /\ Acyclic
    /\ Len(edges) = Len(nodes) - 1
    /\ \A id \in NodeIdSet :
          Cardinality(EdgesInto(id)) <= 1 /\ Cardinality(EdgesOutOf(id)) <= 1

\* The 1-based position of a node in the chain.
ChainPos(id) == Cardinality(Ancestors(id)) + 1

\* C11: in a simple chain of n >= 1 nodes with no other edges, the i-th node of
\* the chain has rank i-1, x = 0 and y = 50 + 150*(i-1).
C11_ChainLayout ==
    (Returned /\ WholeChain) => \A id \in NodeIdSet :
        /\ nodeRanks[id] = ChainPos(id) - 1
        /\ XOf(id) = 0
        /\ YOf(id) = 50 + 150 * (ChainPos(id) - 1)

\* A returned layout of a chain of three nodes that runs against the input order.
C11_Witness ==
    /\ Returned /\ WholeChain /\ Len(nodes) = 3
    /\ ChainPos(NodeIdSeq[3]) = 1 /\ ChainPos(NodeIdSeq[1]) = 3

\* The whole graph is a root with k >= 1 children: every edge leaves the same
\* node, every other node is the target of exactly one edge.
Star ==
    /\ Len(nodes) >= 2 /\ NoDanglingEdges
    /\ Len(edges) = Len(nodes) - 1
    /\ \A i \in 1..Len(edges) :
          edges[i].source = edges[1].source /\ edges[i].target # edges[1].source
    /\ \A i, j \in 1..Len(edges) : i # j => edges[i].target # edges[j].target

\* C12: for a root with k >= 1 children and no other edges, the root is at rank 0
\* with x = 0, y = 50, and the child of the i-th edge is at rank 1 with y = 200 and
\* x = -125*(k-1) + 250*(i-1).
C12_StarLayout ==
    (Returned /\ Star) =>
        LET root == edges[1].source
            k == Len(edges)
        IN /\ nodeRanks[root] = 0 /\ XOf(root) = 0 /\ YOf(root) = 50
           /\ \A i \in 1..k :
                 /\ nodeRanks[edges[i].target] = 1
                 /\ YOf(edges[i].target) = 200
                 /\ XOf(edges[i].target) = -125 * (k - 1) + 250 * (i - 1)
           /\ k = 2 => XOf(edges[1].target) = -125 /\ XOf(edges[2].target) = 125

\* The 1-based index of a node id in the input list.
IndexOf(id) == CHOOSE i \in 1..Len(nodes) : NodeIdSeq[i] = id

\* A returned layout of a root with two children whose edges come in the reverse
\* of the children's input order.
C12_Witness ==
    /\ Returned /\ Star /\ Len(edges) = 2
    /\ IndexOf(edges[1].target) > IndexOf(edges[2].target)

\* The whole graph is one directed cycle through all of its n >= 2 nodes.
PureCycle ==
    /\ Len(nodes) >= 2 /\ NoDanglingEdges
    /\ Len(edges) = Len(nodes)
    /\ \A id \in NodeIdSet :
          /\ Cardinality(EdgesInto(id)) = 1 /\ Cardinality(EdgesOutOf(id)) = 1
          /\ Descendants(id) = NodeIdSet

\* C13: in a pure cycle of n >= 2 nodes the first node of the input list is the
\* only node at rank 0, every other node has its distance from that node along
\* the cycle as rank, every node is returned exactly once, and the call ends.
C13_PureCycle ==
    /\ [](PureCycle =>
            /\ ~Threw
            /\ Returned =>
                  /\ nodeRanks[NodeIdSeq[1]] = 0
                  /\ \A id \in NodeIdSet \ {NodeIdSeq[1]} :
                        nodeRanks[id] = Dist({NodeIdSeq[1]}, id) /\ nodeRanks[id] > 0
                  /\ \A id \in NodeIdSet :
                        Cardinality({i \in 1..Len(OutIds) : OutIds[i] = id}) = 1
                  /\ Len(OutIds) = Len(nodes))
    /\ (PureCycle => <>Returned)

\* A returned layout of a cycle of three nodes that runs against the input order.
C13_Witness ==
    /\ Returned /\ PureCycle /\ Len(nodes) = 3
    /\ \E i \in 1..Len(edges) :
          edges[i].source = NodeIdSeq[1] /\ edges[i].target = NodeIdSeq[3]

\* C14: for an empty node list the call returns an empty node list without an
\* error, whatever the edges; for the empty graph the result has no nodes and no
\* edges.
C14_EmptyGraph ==
    Len(nodes) = 0 =>
        /\ ~Threw
        /\ Len(queue) = 0 /\ DOMAIN ranks = {}
        /\ Returned =>
              /\ result[1].nodes = <<>>
              /\ Len(edges) = 0 => result[1].edges = <<>>

\* The empty graph, laid out and returned.
C14_Witness == Returned /\ Len(nodes) = 0 /\ Len(edges) = 0

\* The edges into id whose source is a node.
EdgesIntoFromNodes(id) == {i \in EdgesInto(id) : IsNodeId(edges[i].source)}

\* C15: an edge whose source is no node does not count toward its target's
\* in-degree, and a node all of whose incoming edges have such sources is a root
\* at rank 0 (y = 50).
C15_MissingSourceNotCounted ==
    /\ pc \notin {"init", "edges"} =>
          \A id \in NodeIdSet : inDegree[id] = Cardinality(EdgesIntoFromNodes(id))
    /\ Returned =>
          \A id \in NodeIdSet :
              EdgesIntoFromNodes(id) = {} => nodeRanks[id] = 0 /\ YOf(id) = 50

\* The nodes without an incoming edge, as a set and in input order.
InDegreeZero == {id \in NodeIdSet : EdgesInto(id) = {}}
InDegreeZeroSeq == SelectSeq(NodeIdSeq, LAMBDA id : EdgesInto(id) = {})

\* C16: in a graph without dangling edges that has a node of in-degree zero, the
\* nodes at rank 0 (y = 50) are exactly the nodes of in-degree zero.
C16_RankZeroIsInDegreeZero ==
    (Returned /\ NoDanglingEdges /\ InDegreeZero # {}) =>
        /\ \A id \in NodeIdSet :
              /\ nodeRanks[id] = 0 <=> id \in InDegreeZero
              /\ YOf(id) = 50 <=> id \in InDegreeZero
        /\ ranks[0] = InDegreeZeroSeq

\* A returned layout with two roots, the first input node not among them, and a
\* node on a cycle that no root reaches.
C16_Witness ==
    /\ Returned /\ NoDanglingEdges /\ Len(nodes) = 3
    /\ Cardinality(InDegreeZero) >= 1
    /\ NodeIdSeq[1] \notin InDegreeZero
    /\ \E id \in NodeIdSet : OnCycle(id) /\ Ancestors(id) \cap InDegreeZero = {}

\* The traversal is over.
BfsOver == pc \in {"sweep", "place", "done", "threw"}
\* The queue was seeded and nothing was dequeued yet.
JustSeeded == pc = "bfs" /\ visited = {}

\* C17: the fallback root is used only when no node has in-degree zero: if the
\* list is not empty and every node has an incoming edge, the first node is the
\* only seed at rank 0; otherwise the seeds are the in-degree-zero nodes, in input
\* order, and the first node is one of them only if its in-degree is zero.
C17_FallbackOnlyWithoutRoots ==
    LET seeds == IF InDegreeZero = {} THEN <<NodeIdSeq[1]>> ELSE InDegreeZeroSeq
    IN Len(nodes) > 0 =>
        /\ JustSeeded => queue = [i \in 1..Len(seeds) |-> [id |-> seeds[i], rank |-> 0]]
        /\ (pc = "bfs" \/ BfsOver) => SubSeq(pushLog, 1, Len(seeds)) = seeds
        /\ BfsOver => ranks[0] = seeds

\* A finished call on three nodes that all have an incoming edge and are not one
\* cycle: the first node is the root by fallback.
C17_Witness ==
    /\ Finished /\ Len(nodes) = 3 /\ InDegreeZero = {} /\ ~PureCycle
    /\ ranks[0] = <<NodeIdSeq[1]>>

\* The roots: the nodes without an incoming edge, or the first node if there are none.
RootSet ==
    IF InDegreeZero # {} THEN InDegreeZero
    ELSE IF Len(nodes) > 0 THEN {NodeIdSeq[1]} ELSE {}

\* C18: without dangling edges, the rank of every node reachable from the roots
\* is the length of the shortest directed path from a root to it.
C18_RankIsBfsDistance ==
    (Returned /\ NoDanglingEdges) =>
        \A id \in NodeIdSet :
            Dist(RootSet, id) >= 0 =>
                /\ nodeRanks[id] = Dist(RootSet, id)
                /\ YOf(id) = NodeY(Dist(RootSet, id))

\* A returned layout in which a node is reached by a direct edge from a root and
\* by a longer path as well.
C18_Witness ==
    /\ Returned /\ NoDanglingEdges
    /\ \E r \in RootSet, mid, id \in NodeIdSet :
          /\ Cardinality({r, mid, id}) = Len(nodes) /\ Len(nodes) > 2
          /\ \A p \in {<<r, mid>>, <<mid, id>>, <<r, id>>} :
                \E e \in EdgeSet : e.source = p[1] /\ e.target = p[2]
          /\ nodeRanks[id] = 1

\* The number of times id occurs in a sequence of ids.
Occurrences(seq, id) == Cardinality({i \in 1..Len(seq) : seq[i] = id})
\* The number of times id occurs in the rows.
RowOccurrences(id) ==
    Cardinality({p \in (DOMAIN ranks) \X (1..MaxNodes) :
                    p[2] <= Len(ranks[p[1]]) /\ ranks[p[1]][p[2]] = id})

\* C19: a rank once written is never changed, rows only grow at their end, and
\* every ranked node is in exactly one row, the row of its rank; a later queue
\* entry for the node changes nothing.
C19_FirstRankFinal ==
    /\ [][/\ \A id \in DOMAIN nodeRanks :
                id \in DOMAIN nodeRanks' /\ nodeRanks'[id] = nodeRanks[id]
          /\ \A r \in DOMAIN ranks :
                /\ r \in DOMAIN ranks' /\ Len(ranks'[r]) >= Len(ranks[r])
                /\ SubSeq(ranks'[r], 1, Len(ranks[r])) = ranks[r]]_vars
    /\ [](/\ \A id \in DOMAIN nodeRanks :
                /\ RowOccurrences(id) = 1
                /\ nodeRanks[id] \in DOMAIN ranks
                /\ \E i \in 1..Len(ranks[nodeRanks[id]]) : ranks[nodeRanks[id]][i] = id
          /\ \A r \in DOMAIN ranks : \A i \in 1..Len(ranks[r]) : ranks[r][i] \in DOMAIN nodeRanks
          /\ DOMAIN nodeRanks = visited)

\* The traversal holds a queue entry for a node that already has a rank, and the
\* entry carries another rank.
C19_Witness ==
    /\ pc = "bfs"
    /\ \E i \in 1..Len(queue) :
          /\ queue[i].id \in visited
          /\ queue[i].id \in DOMAIN nodeRanks
          /\ queue[i].rank # nodeRanks[queue[i].id]

\* C20 as stated: every node id is put on the queue at most once.
C20_EnqueuedAtMostOnce ==
    \A id \in NodeIdSet : Occurrences(pushLog, id) <= 1

\* C20, amended: a node that has been visited is never put on the queue again; a
\* node may be queued more than once before its first dequeue, at most once as a
\* root and once per edge into it, and it is processed once.
C20_NoPushAfterVisit ==
    /\ [][\A id \in visited' : Occurrences(pushLog', id) = Occurrences(pushLog, id)]_vars
    /\ [](/\ \A id \in NodeIdSet :
                Occurrences(pushLog, id) <=
                    (IF id \in RootSet THEN 1 ELSE 0) + Cardinality(EdgesInto(id))
          /\ \A id \in visited : RowOccurrences(id) = 1
          /\ pc = "bfs" => \A id \in visited : Occurrences(pushLog, id) >= 1
          /\ \A i \in 1..Len(queue) : Occurrences(pushLog, queue[i].id) >= 1)

\* A finished call in which some node was put on the queue twice.
C20_Witness ==
    /\ Finished /\ ~Threw
    /\ \E id \in NodeIdSet : Occurrences(pushLog, id) >= 2 /\ RowOccurrences(id) = 1

\* The nodes the traversal does not reach, as a set and in input order.
Unreached == {id \in NodeIdSet : Dist(RootSet, id) < 0}
UnreachedSeq == SelectSeq(NodeIdSeq, LAMBDA id : Dist(RootSet, id) < 0)
\* The largest rank the traversal gives (0 if it gives none).
MaxBfsRank == SetMax({Dist(RootSet, id) : id \in NodeIdSet \ Unreached} \cup {0})

\* C21: the nodes the traversal did not visit are all in one row, the row one
\* rank beyond the largest rank of the traversal, in input order.
C21_UnvisitedShareOneRow ==
    (Returned /\ Unreached # {}) =>
        /\ \A id \in Unreached : nodeRanks[id] = MaxBfsRank + 1
        /\ (MaxBfsRank + 1) \in DOMAIN ranks
        /\ ranks[MaxBfsRank + 1] = UnreachedSeq

\* The targets of the edges out of a node, in edge order (none for an id that is
\* no node).
OutTargets(id) ==
    IF ~IsNodeId(id) THEN <<>>
    ELSE LET idx == SelectSeq([i \in 1..Len(edges) |-> i], LAMBDA i : edges[i].source = id)
         IN [j \in 1..Len(idx) |-> edges[idx[j]].target]

\* The 1-based position of id in the row of rank r of the row table rs.
RowPos(rs, r, id) == CHOOSE i \in 1..Len(rs[r]) : rs[r][i] = id

\* C22: a row is ordered left to right by first visit: a newly visited node goes
\* behind the nodes already in its row, the roots are visited in input order, the
\* unvisited successors of a dequeued node are enqueued in edge order, and in the
\* returned layout x grows along the row.
C22_RowOrderIsVisitOrder ==
    /\ [][\A id \in visited' \ visited :
            LET r == nodeRanks'[id]
            IN /\ ranks'[r][Len(ranks'[r])] = id
               /\ \A old \in visited :
                     nodeRanks'[old] = r => RowPos(ranks', r, old) < RowPos(ranks', r, id)]_vars
    /\ [][(pc = "bfs" /\ queue # <<>> /\ Head(queue).id \notin visited) =>
            pushLog' = pushLog \o SelectSeq(OutTargets(Head(queue).id),
                                            LAMBDA t : t \notin visited')]_vars
    /\ []((BfsOver /\ Len(nodes) > 0) =>
            \A i, j \in 1..Len(ranks[0]) :
                i < j => IndexOf(ranks[0][i]) < IndexOf(ranks[0][j]))
    /\ [](Returned =>
            \A r \in DOMAIN ranks : \A i, j \in 1..Len(ranks[r]) :
                i < j => XOf(ranks[r][i]) < XOf(ranks[r][j]))

\* A returned layout with a row whose left-to-right order is not the input order.
C22_Witness ==
    /\ Returned
    /\ \E r \in DOMAIN ranks : \E i, j \in 1..Len(ranks[r]) :
          /\ i < j /\ IndexOf(ranks[r][i]) > IndexOf(ranks[r][j])
          /\ XOf(ranks[r][i]) < XOf(ranks[r][j])

\* The sum of the x values of the first i nodes of a row.
RECURSIVE SumX(_, _)
SumX(row, i) == IF i = 0 THEN 0 ELSE XOf(row[i]) + SumX(row, i - 1)

\* C23: in a row of k nodes the node at 0-based index i has
\* x = -(k * X_SPACING)/2 + X_SPACING/2 + i * X_SPACING; the x values of a row sum
\* to 0 and neighbours are X_SPACING apart.
C23_RowCentred ==
    Returned =>
        \A r \in DOMAIN ranks :
            LET row == ranks[r]
                k == Len(row)
            IN /\ \A i \in 0..(k - 1) :
                     2 * XOf(row[i + 1]) = -(k * X_SPACING) + X_SPACING + 2 * i * X_SPACING
               /\ SumX(row, k) = 0
               /\ \A i \in 1..(k - 1) : XOf(row[i + 1]) - XOf(row[i]) = X_SPACING

\* A returned layout with a row of one node and a row of MaxNodes - 1 nodes.
C23_Witness ==
    /\ Returned
    /\ \E r \in DOMAIN ranks : Len(ranks[r]) = MaxNodes - 1
    /\ \E r \in DOMAIN ranks : Len(ranks[r]) = 1 /\ XOf(ranks[r][1]) = 0

\* C24: every returned node has y = rank * Y_SPACING + 50, so the nodes of a row
\* share their y, the first row is at y = 50 and rows one rank apart are Y_SPACING
\* apart.
C24_RowHeight ==
    Returned =>
        /\ \A id \in NodeIdSet : YOf(id) = nodeRanks[id] * Y_SPACING + 50
        /\ \A r \in DOMAIN ranks : \A i, j \in 1..Len(ranks[r]) :
              YOf(ranks[r][i]) = YOf(ranks[r][j])
        /\ Len(nodes) > 0 => (0 \in DOMAIN ranks /\ YOf(ranks[0][1]) = 50)
        /\ \A r \in DOMAIN ranks :
              (r + 1) \in DOMAIN ranks => YOf(ranks[r + 1][1]) - YOf(ranks[r][1]) = Y_SPACING

\* A returned layout of three rows, one of them swept.
C24_Witness ==
    /\ Returned /\ DOMAIN ranks = 0..(MaxNodes - 1)
    /\ Unreached # {}
    /\ \E id \in NodeIdSet : YOf(id) = 50 + (MaxNodes - 1) * Y_SPACING

\* calculateLayout applied to the object the finished call returned.
LayoutAgain == LayoutOf(heap, result[1].nodes, result[1].edges)

\* C25: without dangling edges, laying out the returned graph again returns the
\* same nodes in the same order with the same x, y, width and height.
C25_Idempotent ==
    (Returned /\ NoDanglingEdges) =>
        /\ ~LayoutAgain.threw
        /\ Deref(LayoutAgain.heap, LayoutAgain.finalNodes) = OutNodes

\* A returned layout whose node order is not the input order, with a resized
\* input node and a node the traversal did not reach.
C25_Witness ==
    /\ Returned /\ NoDanglingEdges
    /\ OutIds # NodeIdSeq
    /\ Unreached # {}
    /\ \E r \in InputRefs : heap[r].width # None

\* C26: without dangling edges no two returned nodes share a position: in a row
\* the x values differ, and nodes of different rows differ in y.
C26_NoOverlap ==
    (Returned /\ NoDanglingEdges) =>
        \A a, b \in NodeIdSet :
            a # b => /\ <<XOf(a), YOf(a)>> # <<XOf(b), YOf(b)>>
                     /\ nodeRanks[a] = nodeRanks[b] => XOf(a) # XOf(b)
                     /\ nodeRanks[a] # nodeRanks[b] => YOf(a) # YOf(b)

\* A returned layout with two nodes in one row and a third node in another row.
C26_Witness ==
    /\ Returned /\ NoDanglingEdges
    /\ \E a, b, c \in NodeIdSet :
          /\ a # b /\ YOf(a) = YOf(b) /\ XOf(a) # XOf(b)
          /\ YOf(c) # YOf(a)

\* ------------------------------------------------------- App: properties
\* The flow data after the first i queued updates.
FlowAfter(i) ==
    ApplyUpdates([flowData |-> flowData, isDirty |-> isDirty, history |-> history,
                  autoSync |-> autoSync, synced |-> synced], SubSeq(updates, 1, i), 1).flowData

FlowNodeIds(d) == {d.nodes[i].id : i \in 1..Len(d.nodes)}

\* C27: when a refinement resolves, only the sop field is replaced: the nodes and
\* edges of the flow data, with the changes made while the request was in flight,
\* are what they were.
C27_RefineReplacesSopOnly ==
    [][(request # None /\ request' = None /\ Len(updates') > Len(updates)) =>
          /\ Latest'.flowData.nodes = Latest.flowData.nodes
          /\ Latest'.flowData.edges = Latest.flowData.edges]_vars

\* C28: with everything rendered, a non-empty flow whose structure is no longer
\* the one that the last generation, history load, refinement or reset set (a
\* non-empty one) is marked dirty.
C28_EditMarksDirty ==
    (/\ updates = <<>>
     /\ Len(flowData.nodes) # 0
     /\ Len(synced[1]) # 0
     /\ Structure(flowData) # synced) => isDirty

\* No edge of the list joins a node to itself and no two edges join the same
\* source to the same target.
NoLoopNoDuplicate(es) ==
    /\ \A j \in 1..Len(es) : es[j].source # es[j].target
    /\ \A j, k \in 1..Len(es) :
          (j # k) => <<es[j].source, es[j].target>> # <<es[k].source, es[k].target>>

\* The queued updates are all made by handlers of this set.
OnlyEdits(ops) ==
    \A i \in 1..Len(updates) : updates[i].kind = "editFlow" /\ updates[i].op.op \in ops

\* C29: after addEdge calls, rendered or not, on an edge list without self-loops
\* and duplicate pairs the edge list has none.
C29_AddEdgeKeepsEdgesDistinct ==
    (NoLoopNoDuplicate(flowData.edges) /\ OnlyEdits({"addEdge"})) =>
        NoLoopNoDuplicate(Latest.flowData.edges)

\* Every edge of the flow joins two of its nodes.
EdgesClosed(d) ==
    \A j \in 1..Len(d.edges) :
        d.edges[j].source \in FlowNodeIds(d) /\ d.edges[j].target \in FlowNodeIds(d)

\* Every queued addEdge joins nodes of the flow it is applied to.
AddEdgeBetweenNodes ==
    \A i \in 1..Len(updates) :
        updates[i].op.op = "addEdge" =>
            {updates[i].op.s, updates[i].op.t} \subseteq FlowNodeIds(FlowAfter(i - 1))

\* C30: deleteNode(id) leaves no node id and no edge from or to id; and from a
\* flow whose edges join its nodes, addNode, addEdge between nodes of the flow,
\* deleteNode and deleteEdge lead to a flow whose edges join its nodes.
C30_EdgesStayClosed ==
    /\ \A i \in 1..Len(updates) :
          updates[i].op.op = "deleteNode" =>
              /\ updates[i].op.id \notin FlowNodeIds(FlowAfter(i))
              /\ \A j \in 1..Len(FlowAfter(i).edges) :
                    /\ FlowAfter(i).edges[j].source # updates[i].op.id
                    /\ FlowAfter(i).edges[j].target # updates[i].op.id
    /\ (/\ EdgesClosed(flowData)
        /\ OnlyEdits({"addNode", "addEdge", "deleteNode", "deleteEdge"})
        /\ AddEdgeBetweenNodes) =>
            \A i \in 0..Len(updates) : EdgesClosed(FlowAfter(i))

\* An addEdge and then a deleteNode of one of its endpoints are queued on a flow
\* that has an edge at that node already, and the next render shows no edge.
C30_Witness ==
    /\ EdgesClosed(flowData) /\ Len(flowData.edges) > 0
    /\ Len(updates) = 2
    /\ updates[1].op.op = "addEdge" /\ updates[2].op.op = "deleteNode"
    /\ updates[2].op.id \in {updates[1].op.s, updates[1].op.t}
    /\ Latest.flowData.edges = <<>>
    /\ Len(Latest.flowData.nodes) > 0

====
